---- MODULE Spec2Model ----
(***************************************************************************)
(* State-machine model of IotSvgObject and the metadata parser of          *)
(* ui-ngx/src/app/modules/home/components/widget/lib/svg/iot-svg.models.ts *)
(*                                                                         *)
(* Every handler of the class is one atomic action (JavaScript runs a      *)
(* handler to completion).  RxJS subjects are modelled by the two flags    *)
(* the code depends on: the stored value and `closed` (set by              *)
(* unsubscribe()); next() and the value getter of a closed subject throw   *)
(* ObjectUnsubscribedError.                                                *)
(***************************************************************************)
EXTENDS Integers, Sequences, FiniteSets, TLC

\* ------------------------------------------------------------------ bounds
MaxBehaviors == 2      \* behaviours declared by one metadata
MaxKids      == 2      \* children of the document root
MaxDispatch  == 1      \* callAction calls that reach a value setter
MaxApiCalls  == 1      \* script calls of ctx.api.setValue / ctx.api.callAction
MaxTags      == 2      \* tags declared by one metadata
MaxElements  == 3      \* elements of the scene a render pass queries
MaxEmbeds    == 2      \* successive updateIotSvgMetadataInContent calls on one document

\* ------------------------------------------------------------ JS values
\* A JavaScript value: its kind and a payload.  For an object the payload is
\* its identity (every object of the model is structurally {}).
Undefined == [k |-> "undefined", n |-> 0]
Null      == [k |-> "null", n |-> 0]
NaNValue  == [k |-> "NaN", n |-> 0]
Bool(b)   == [k |-> "boolean", n |-> IF b THEN 1 ELSE 0]
Num(i)    == [k |-> "number", n |-> i]
Str(i)    == [k |-> "string", n |-> i]       \* Str(0) is ''
Obj(r)    == [k |-> "object", n |-> r]

\* a !== b
StrictNotEqual(a, b) == a.k = "NaN" \/ b.k = "NaN" \/ a # b

\* deep (structural) equality of two values
StructEqual(a, b) == a.k = b.k /\ (a.k \in {"object", "NaN"} \/ a = b)

isUndefinedOrNull(v) == v.k \in {"undefined", "null"}

\* ------------------------------------------------------------- metadata
ValueIds    == {"v1", "v2", "v9"}            \* "v9" is bound by no behaviour
BehaviorIds == {"g1", "g2", "g3", "a1", "w1", "zz"}   \* "zz" is declared nowhere

ValueBehavior(id, valueType, defaultValue, valueId) ==
  [id |-> id, type |-> "value", valueType |-> valueType,
   defaultValue |-> defaultValue, valueId |-> valueId]
OtherBehavior(id, type) ==
  [id |-> id, type |-> type, valueType |-> "", defaultValue |-> Undefined, valueId |-> ""]

\* g1 and g3 are bound to the same value id
BehaviorPool ==
  << ValueBehavior("g1", "BOOLEAN", Bool(FALSE), "v1"),
     ValueBehavior("g2", "JSON", Obj(0), "v2"),
     ValueBehavior("g3", "INTEGER", Num(0), "v1"),
     OtherBehavior("a1", "action"),
     OtherBehavior("w1", "widgetAction") >>

\* Behaviour lists with unique ids (Behavior.id is unique within one Metadata):
\* the behaviours of the pool declared in pool order or in reverse pool order.
BehaviorLists ==
  LET picks == { p \in UNION { [1..n -> DOMAIN BehaviorPool] : n \in 0..MaxBehaviors } :
                   \/ \A i, j \in DOMAIN p : i < j => p[i] < p[j]
                   \/ \A i, j \in DOMAIN p : i < j => p[i] > p[j] }
  IN { [i \in DOMAIN p |-> BehaviorPool[p[i]]] : p \in picks }

\* The value JSON.parse gives for the descriptor text: json = "metadata" is an
\* object of the Metadata schema, "null" the JSON null, "other" any other JSON
\* value (number, string, array, object without behavior/tags/properties).
JsonValue(json, behavior) ==
  [json |-> json, title |-> "", tags |-> <<>>, behavior |-> behavior, properties |-> <<>>]

emptyMetadata == JsonValue("metadata", <<>>)

IsMetadata(m) == m.json = "metadata"

\* ------------------------------------------------------------- documents
\* The text of a descriptor element, by what JSON.parse does with it.
InvalidJson   == [valid |-> FALSE, value |-> JsonValue("other", <<>>)]
JsonText(v)   == [valid |-> TRUE, value |-> v]
NoText        == [valid |-> FALSE, value |-> JsonValue("none", <<>>)]

DescriptorTexts ==
  {InvalidJson, JsonText(JsonValue("null", <<>>)), JsonText(JsonValue("other", <<>>))}
  \cup { JsonText(JsonValue("metadata", b)) : b \in BehaviorLists }

Descriptor(text) == [kind |-> "tb:metadata", text |-> text]
Shape            == [kind |-> "g", text |-> NoText]
ParserError      == [kind |-> "parsererror", text |-> NoText]

Nodes == { Descriptor(t) : t \in DescriptorTexts } \cup {Shape}

\* The text of a vector document: well-formed XML with the children of its
\* root, or text that is not well-formed XML.
SvgContents ==
  { [wellFormed |-> TRUE, kids |-> s] :
      s \in UNION { [1..n -> Nodes] : n \in 0..MaxKids } }
  \cup { [wellFormed |-> FALSE, kids |-> <<>>] }

\* new DOMParser().parseFromString(svgContent, 'image/svg+xml'): never throws;
\* text that is not well-formed gives a document holding a parsererror element.
DOMParse(svgContent) ==
  IF svgContent.wellFormed THEN svgContent.kids ELSE <<ParserError>>

\* doc.getElementsByTagName('tb:metadata'), in document order
getElementsByTagName(doc) == SelectSeq(doc, LAMBDA e : e.kind = "tb:metadata")

parseIotSvgMetadataFromDom(doc) ==
  LET elements == getElementsByTagName(doc)
  IN IF Len(elements) > 0
       THEN IF elements[1].text.valid
              THEN elements[1].text.value       \* JSON.parse(textContent)
              ELSE emptyMetadata                \* SyntaxError caught
       ELSE emptyMetadata

parseIotSvgMetadataFromContent(svgContent) ==
  parseIotSvgMetadataFromDom(DOMParse(svgContent))

\* ---------------------------------------------------------------- embed
\* Titles a metadata may carry; the second holds the character sequence that
\* terminates a CDATA section.
Titles        == {"", "a]]>b"}
CdataEndTexts == {"a]]>b"}

\* the metadata values handed to updateIotSvgMetadataInContent
EmbedMetadata ==
  { [JsonValue("metadata", b) EXCEPT !.title = t] : b \in BehaviorLists, t \in Titles }

\* The value JSON.parse gives back for what JSON.stringify wrote of v: NaN is
\* written as null, an object comes back as another object, and a property
\* holding undefined is left out (reading it gives undefined again).
JSONStringifyValue(v) ==
  CASE v.k = "NaN" -> Null
    [] v.k = "object" -> Obj(0)
    [] OTHER -> v

\* JSON.stringify(metadata, null, 2), as the text that parses to its image
JSONStringify(m) ==
  JsonText([m EXCEPT !.behavior =
              [i \in DOMAIN m.behavior |->
                 [m.behavior[i] EXCEPT !.defaultValue = JSONStringifyValue(@)]]])

\* createCDATASection(content) throws InvalidCharacterError when the content
\* holds "]]>"; JSON.stringify leaves these characters of a string as they are.
createCDATASectionThrows(m) == m.title \in CdataEndTexts

\* the children of the root after updateIotSvgMetadataInDom (no throw)
updateIotSvgMetadataInDom(doc, m) ==
  LET idx == { j \in DOMAIN doc : doc[j].kind = "tb:metadata" }
  IN IF idx # {}
       THEN LET first == CHOOSE j \in idx : \A x \in idx : j <= x
            IN [doc EXCEPT ![first] = Descriptor(JSONStringify(m))]
       ELSE <<Descriptor(JSONStringify(m))>> \o doc

\* svgDoc.documentElement.outerHTML of the updated document, or a throw
updateIotSvgMetadataInContent(svgContent, m) ==
  IF createCDATASectionThrows(m)
    THEN [threw |-> TRUE, content |-> svgContent]
    ELSE [threw |-> FALSE,
          content |-> [wellFormed |-> TRUE,
                       kids |-> updateIotSvgMetadataInDom(DOMParse(svgContent), m)]]

\* a deep comparison of two metadata values
MetadataStructEqual(a, b) ==
  /\ a.json = b.json
  /\ a.title = b.title
  /\ Len(a.behavior) = Len(b.behavior)
  /\ \A i \in DOMAIN a.behavior :
        /\ i \in DOMAIN b.behavior
        /\ [a.behavior[i] EXCEPT !.defaultValue = Undefined]
             = [b.behavior[i] EXCEPT !.defaultValue = Undefined]
        /\ StructEqual(a.behavior[i].defaultValue, b.behavior[i].defaultValue)

\* The removal loop of prepareSvgShape over the live collection `elements`:
\* step i removes item(i) of the collection as it is at that moment.
RECURSIVE RemoveDescriptors(_, _)
RemoveDescriptors(doc, i) ==
  LET idx == { j \in DOMAIN doc : doc[j].kind = "tb:metadata" }
  IN IF i >= Cardinality(idx) THEN doc
     ELSE LET j == CHOOSE j \in idx : Cardinality({ x \in idx : x < j }) = i
          IN RemoveDescriptors(SubSeq(doc, 1, j - 1) \o SubSeq(doc, j + 1, Len(doc)), i + 1)

\* the descriptor elements in the scene built from the stripped document
prepareSvgShape(doc) == Len(getElementsByTagName(RemoveDescriptors(doc, 0)))

\* ------------------------------------------------------------------ state
VARIABLES
  initResult,          \* outcome of the init() observable
  initialized,         \* initialize() built the context and ran the first render
  metadata,            \* this.metadata
  sceneDescriptors,    \* descriptor elements among the children of this.svgShape
  destroyed,           \* destroy() was called
  loadingSubject,      \* [value, closed] of the busy-flag BehaviorSubject
  subjects,            \* every BehaviorSubject created by initialize, in order
  stateValueSubjects,  \* value id -> index into subjects (0: no entry)
  contextValues,       \* this.context.values
  valueActions,        \* behaviour ids of the constructed getters and setters
  actionsDestroyed,    \* behaviour ids whose getter/setter had destroy() called
  req,                 \* behaviour id -> state of its acquisition request
  forkJoin,            \* state of the forkJoin subscription of the batch
  dispatches,          \* the value-setter dispatches started by callAction
  renderCount,         \* render passes run so far
  notifyCount,         \* invocations of a cell's subscriber
  acceptedCount,       \* setValue calls that passed the guard of line 522
  acceptedIds,         \* the value ids of those calls
  renderedValues,      \* this.context.values as the last render pass read it
  errorSink,           \* messages passed to this._onError
  setterCalls,         \* valueSetter.setValue invocations
  widgetCalls,         \* actionsApi.onWidgetAction invocations
  batchSets,           \* loadingSubject.next(true) of initialize
  batchClears,         \* loadingSubject.next(false) of the forkJoin handlers
  apiCalls,            \* script calls made so far
  nextRef,             \* identity of the next object allocated
  op,                  \* the last operation
  threw,               \* the last operation threw
  delivered,           \* behaviour id -> the raw value its request delivered
  rootElement,         \* this.rootElement
  targetWidth,         \* this.targetWidth
  targetHeight,        \* this.targetHeight
  box,                 \* this.box
  scale,               \* the scale in the transform of the scene
  attachedTo,          \* the container the scene is a child of
  pfIn,                \* input of the function applied on its own (SpecParse)
  pfOut                \* its result

storeVars == <<subjects, stateValueSubjects, contextValues, renderCount, notifyCount,
               acceptedCount, acceptedIds, renderedValues>>
vars == <<initResult, initialized, metadata, sceneDescriptors, destroyed, loadingSubject,
          subjects, stateValueSubjects, contextValues, valueActions, actionsDestroyed,
          req, forkJoin, dispatches, renderCount, notifyCount, acceptedCount,
          acceptedIds, renderedValues, errorSink, setterCalls, widgetCalls, batchSets,
          batchClears,
          apiCalls, nextRef, op, threw, delivered, rootElement, targetWidth, targetHeight,
          box, scale, attachedTo, pfIn, pfOut>>
pureVars == <<pfIn, pfOut>>
sizeVars == <<rootElement, targetWidth, targetHeight, box, scale, attachedTo>>
objectVars == <<initResult, initialized, metadata, sceneDescriptors, destroyed, loadingSubject,
                storeVars, valueActions, actionsDestroyed, req, forkJoin, dispatches,
                errorSink, setterCalls, widgetCalls, batchSets, batchClears, apiCalls,
                nextRef, op, threw, delivered, sizeVars>>

NoMetadata == JsonValue("undefined", <<>>)

Op(name, id, strictSame, structSame) ==
  [name |-> name, id |-> id, strictSame |-> strictSame, structSame |-> structSame,
   late |-> destroyed, bid |-> ""]

\* ------------------------------------------------- reactive store, rendering
\* The part of the object the value path reads and writes, as one record.
Store ==
  [subjects |-> subjects, reg |-> stateValueSubjects, values |-> contextValues,
   renders |-> renderCount, notifies |-> notifyCount, accepted |-> acceptedCount,
   ids |-> acceptedIds, seen |-> renderedValues, threw |-> FALSE]

StoreBecomes(S) ==
  /\ subjects' = S.subjects
  /\ stateValueSubjects' = S.reg
  /\ contextValues' = S.values
  /\ renderCount' = S.renders
  /\ notifyCount' = S.notifies
  /\ acceptedCount' = S.accepted
  /\ acceptedIds' = S.ids
  /\ renderedValues' = S.seen

\* a render pass: the scripts read the context as it is when the pass runs
renderState(S) == [S EXCEPT !.renders = @ + 1, !.seen = S.values]

\* The script invocations of one render pass, in order.  `tags` is
\* metadata.tags, `elements` the tb:tag attribute of every element of the
\* scene in document order ("" for an element without the attribute);
\* svgShape.find gives the matching elements in document order.
RECURSIVE TagCalls(_, _, _)
TagCalls(tags, elements, k) ==
  IF k > Len(tags) THEN <<>>
  ELSE LET hits == SelectSeq([i \in DOMAIN elements |-> [tag |-> elements[i], at |-> i]],
                             LAMBDA e : e.tag = tags[k])
       IN [i \in DOMAIN hits |-> [script |-> tags[k], at |-> hits[i].at]]
          \o TagCalls(tags, elements, k + 1)

\* a pass that visits the elements in document order and runs the root script last
renderStateCalls_ByElement(tags, elements) ==
  LET all  == [i \in DOMAIN elements |-> [script |-> elements[i], at |-> i]]
      decl == { tags[k] : k \in DOMAIN tags }
  IN SelectSeq(all, LAMBDA c : c.script \in decl) \o <<[script |-> "root", at |-> 0]>>

renderStateCalls(tags, elements) ==
  <<[script |-> "root", at |-> 0]>> \o TagCalls(tags, elements, 1)

\* The scale resize() puts into the transform, as the fraction num / den.
\* a pick of the smaller of the two ratios
resize_Min(w, h, b) ==
  IF w * b.height < h * b.width
    THEN [num |-> w, den |-> b.width]
    ELSE [num |-> h, den |-> b.height]

\* w, h and b are this.targetWidth, this.targetHeight and this.box
resize(w, h, b) ==
  IF w < h
    THEN [num |-> w, den |-> b.width]
    ELSE [num |-> h, den |-> b.height]

\* onStateValueChanged that renders without storing the value in the snapshot
onStateValueChanged_NoSnapshot(S, id, value) ==
  IF StrictNotEqual(S.values[id], value) THEN renderState(S) ELSE S

\* onStateValueChanged that renders before it stores the value in the snapshot
onStateValueChanged_RenderFirst(S, id, value) ==
  IF StrictNotEqual(S.values[id], value)
    THEN [renderState(S) EXCEPT !.values[id] = value]
    ELSE S

onStateValueChanged(S, id, value) ==
  IF StrictNotEqual(S.values[id], value)
    THEN renderState([S EXCEPT !.values[id] = value])
    ELSE S

\* BehaviorSubject.next of subjects[i]: stores the value, then throws when the
\* subject is closed, else calls the subscriber registered by initialize.
BehaviorSubjectNext(S, i, value) ==
  LET S1 == [S EXCEPT !.subjects[i].value = value]
  IN IF S.subjects[i].closed
       THEN [S1 EXCEPT !.threw = TRUE]
       ELSE onStateValueChanged([S1 EXCEPT !.notifies = @ + 1], S.subjects[i].valueId, value)

\* setValue without the comparison of line 522
setValue_NoCompare(S, valueId, value) ==
  LET i == S.reg[valueId]
  IN IF i = 0 THEN S
     ELSE IF S.subjects[i].closed THEN [S EXCEPT !.threw = TRUE]
     ELSE BehaviorSubjectNext(
            [S EXCEPT !.accepted = @ + 1, !.ids = @ \cup {valueId}], i, value)

\* The value getter of a closed BehaviorSubject throws.
setValue(S, valueId, value) ==
  LET i == S.reg[valueId]
  IN IF i = 0 THEN S
     ELSE IF S.subjects[i].closed THEN [S EXCEPT !.threw = TRUE]
     ELSE IF StrictNotEqual(S.subjects[i].value, value)
       THEN BehaviorSubjectNext(
              [S EXCEPT !.accepted = @ + 1, !.ids = @ \cup {valueId}], i, value)
       ELSE S

\* normalizeValue that replaces undefined only, and keeps null
normalizeValue_UndefinedOnly(value, type, ref) ==
  IF value.k = "undefined"
    THEN CASE type = "STRING" -> Str(0)
           [] type \in {"INTEGER", "DOUBLE"} -> Num(0)
           [] type = "BOOLEAN" -> Bool(FALSE)
           [] type = "JSON" -> Obj(ref)
           [] OTHER -> Undefined
    ELSE value

\* `ref` is the identity of the object a {} literal evaluated now would get.
normalizeValue(value, type, ref) ==
  IF isUndefinedOrNull(value)
    THEN CASE type = "STRING" -> Str(0)
           [] type \in {"INTEGER", "DOUBLE"} -> Num(0)
           [] type = "BOOLEAN" -> Bool(FALSE)
           [] type = "JSON" -> Obj(ref)
           [] OTHER -> Undefined
    ELSE value

\* a lookup that falls back to the first behaviour when no id matches
find_FirstWhenMissing(behavior, id) ==
  LET hits == SelectSeq(behavior, LAMBDA b : b.id = id)
  IN IF Len(hits) > 0 THEN hits[1]
     ELSE IF Len(behavior) > 0 THEN behavior[1] ELSE OtherBehavior("", "undefined")

\* Array.prototype.find(b => b.id === id); type "undefined" stands for no match
find(behavior, id) ==
  LET hits == SelectSeq(behavior, LAMBDA b : b.id = id)
  IN IF Len(hits) = 0 THEN OtherBehavior("", "undefined") ELSE hits[1]

onValue(S, md, id, value, ref) ==
  LET valueBehavior == find(md.behavior, id)
  IN setValue(S, valueBehavior.valueId, normalizeValue(value, valueBehavior.valueType, ref))

\* The behaviour loop of initialize (lines 418-449), from behaviour k on.
RECURSIVE InitBehaviors(_, _, _)
InitBehaviors(S, behavior, k) ==
  IF k > Len(behavior) THEN S
  ELSE IF behavior[k].type = "value"
    THEN LET b == behavior[k]
             cell == [valueId |-> b.valueId, value |-> b.defaultValue, closed |-> FALSE]
             S1 == [S EXCEPT !.subjects = Append(@, cell),
                             !.reg[b.valueId] = Len(S.subjects) + 1,
                             !.values[b.valueId] = b.defaultValue]
             \* subscribe(): a BehaviorSubject replays its value to the subscriber
             S2 == onStateValueChanged([S1 EXCEPT !.notifies = @ + 1],
                                       b.valueId, b.defaultValue)
         IN InitBehaviors(S2, behavior, k + 1)
    ELSE InitBehaviors(S, behavior, k + 1)

ValueGetterIds(md) ==
  { md.behavior[i].id : i \in { j \in DOMAIN md.behavior : md.behavior[j].type = "value" } }
constructed(md) == SelectSeq(md.behavior, LAMBDA b : b.type \in {"value", "action"})

\* loadingSubject.next(v)
LoadingNext(ls, v) == [ls |-> [ls EXCEPT !.value = v], threw |-> ls.closed]

\* ---------------------------------------------------------------- actions
RawValues     == {Undefined, Bool(TRUE)}              \* what a value getter delivers
ScriptValues  == {Bool(FALSE), Bool(TRUE), NaNValue, Obj(nextRef)}
Observers     == {"none", "next", "error", "both"}   \* callbacks of a Partial<Observer>

NotDelivered == [k |-> "none", n |-> 0]     \* no value delivered yet
NoBox        == [width |-> 0, height |-> 0, known |-> FALSE]     \* this.box unset
NoScale      == [num |-> 0, den |-> 0, set |-> FALSE]    \* no transform on the scene
Containers   == {Str(1), Str(2)}            \* the elements the host passes to addTo

\* svgShape.bbox(): every document of the model draws the same natural box
bbox(doc) == [width |-> 200, height |-> 100, known |-> TRUE]

\* the value is truthy (the test of `if (this.targetWidth && this.targetHeight)`)
Truthy(v) == ~(isUndefinedOrNull(v) \/ v.k = "NaN" \/ v = Num(0) \/ v = Str(0)
               \/ v = Bool(FALSE))

\* the transform resize() sets
Scaled(w, h, b) == [num |-> resize(w.n, h.n, b).num, den |-> resize(w.n, h.n, b).den,
                    set |-> TRUE]

\* The state after `new IotSvgObject(...)` and the subscription to init():
\* the fetch of the document text is in flight.
InitObject ==
  /\ initResult = "pending"
  /\ initialized = FALSE
  /\ metadata = NoMetadata
  /\ sceneDescriptors = 0
  /\ destroyed = FALSE
  /\ loadingSubject = [value |-> FALSE, closed |-> FALSE]
  /\ subjects = <<>>
  /\ stateValueSubjects = [v \in ValueIds |-> 0]
  /\ contextValues = [v \in ValueIds |-> Undefined]
  /\ valueActions = <<>>
  /\ actionsDestroyed = {}
  /\ req = [b \in BehaviorIds |-> "none"]
  /\ forkJoin = "none"
  /\ dispatches = <<>>
  /\ renderCount = 0
  /\ notifyCount = 0
  /\ acceptedCount = 0
  /\ acceptedIds = {}
  /\ renderedValues = [v \in ValueIds |-> Undefined]
  /\ errorSink = 0
  /\ setterCalls = 0
  /\ widgetCalls = 0
  /\ batchSets = 0
  /\ batchClears = 0
  /\ apiCalls = 0
  /\ nextRef = 1
  /\ op = [name |-> "new", id |-> "", strictSame |-> FALSE, structSame |-> FALSE,
           late |-> FALSE, bid |-> ""]
  /\ threw = FALSE
  /\ delivered = [b \in BehaviorIds |-> NotDelivered]
  /\ rootElement = Undefined
  /\ targetWidth = Undefined
  /\ targetHeight = Undefined
  /\ box = NoBox
  /\ scale = NoScale
  /\ attachedTo = Undefined

NoContent == [wellFormed |-> FALSE, kids |-> <<>>]

Init ==
  /\ InitObject
  /\ pfIn = NoContent
  /\ pfOut = NoMetadata

\* ctx.http.get fails: the error reaches the subscriber of init().
FetchFail ==
  /\ initResult = "pending"
  /\ initResult' = "transportError"
  /\ op' = Op("fetchFail", "", FALSE, FALSE)
  /\ threw' = FALSE
  /\ UNCHANGED <<initialized, metadata, sceneDescriptors, destroyed, loadingSubject, storeVars,
                 valueActions, actionsDestroyed, req, forkJoin, dispatches, errorSink,
                 setterCalls, widgetCalls, batchSets, batchClears, apiCalls, nextRef, pureVars, sizeVars, delivered>>

\* ctx.http.get delivers the text: the map() callback of init, that is parse,
\* default settings, prepareMetadata, prepareSvgShape and initialize.
FetchOk(svgContent) ==
  /\ initResult = "pending"
  /\ op' = Op("init", "", FALSE, FALSE)
  /\ LET doc == DOMParse(svgContent)
         md  == parseIotSvgMetadataFromDom(doc)
     IN /\ metadata' = md
        /\ IF ~IsMetadata(md)
             THEN \* defaultIotSvgObjectSettings: `metadata.behavior` is not iterable
                  /\ initResult' = "thrown"
                  /\ threw' = TRUE
                  /\ UNCHANGED <<initialized, sceneDescriptors, loadingSubject, storeVars,
                                 valueActions, req, forkJoin, batchSets, box, scale,
                                 attachedTo>>
             ELSE LET S  == renderState(InitBehaviors(Store, md.behavior, 1))
                      c  == constructed(md)
                      ln == LoadingNext(loadingSubject, TRUE)
                  IN /\ sceneDescriptors' = prepareSvgShape(doc)
                     /\ box' = bbox(doc)
                     /\ attachedTo' = IF rootElement # Undefined THEN rootElement
                                                                 ELSE attachedTo
                     /\ scale' = IF Truthy(targetWidth) /\ Truthy(targetHeight)
                                   THEN Scaled(targetWidth, targetHeight, bbox(doc))
                                   ELSE scale
                     /\ initialized' = TRUE
                     /\ StoreBecomes(S)
                     /\ valueActions' = [i \in DOMAIN c |-> c[i].id]
                     /\ IF ValueGetterIds(md) = {}
                          THEN /\ initResult' = "ok"
                               /\ threw' = FALSE
                               /\ UNCHANGED <<loadingSubject, req, forkJoin, batchSets>>
                          ELSE /\ loadingSubject' = ln.ls
                               /\ threw' = ln.threw
                               /\ IF ln.threw
                                    THEN /\ initResult' = "thrown"
                                         /\ UNCHANGED <<req, forkJoin, batchSets>>
                                    ELSE /\ initResult' = "ok"
                                         /\ batchSets' = batchSets + 1
                                         /\ forkJoin' = "active"
                                         /\ req' = [b \in BehaviorIds |->
                                                      IF b \in ValueGetterIds(md)
                                                        THEN "pending" ELSE "none"]
  /\ UNCHANGED <<destroyed, actionsDestroyed, dispatches, errorSink, setterCalls,
                 widgetCalls, batchClears, apiCalls, nextRef, pureVars, delivered,
                 rootElement, targetWidth, targetHeight>>

Destroy ==
  /\ ~destroyed
  /\ destroyed' = TRUE
  /\ subjects' = [i \in DOMAIN subjects |->
                    IF \E v \in ValueIds : stateValueSubjects[v] = i
                      THEN [subjects[i] EXCEPT !.closed = TRUE]
                      ELSE subjects[i]]
  /\ actionsDestroyed' = { valueActions[i] : i \in DOMAIN valueActions }
  /\ loadingSubject' = [loadingSubject EXCEPT !.closed = TRUE]
  /\ op' = Op("destroy", "", FALSE, FALSE)
  /\ threw' = FALSE
  /\ UNCHANGED <<initResult, initialized, metadata, sceneDescriptors, stateValueSubjects,
                 contextValues, valueActions, req, forkJoin, dispatches, renderCount,
                 notifyCount, acceptedCount, acceptedIds, renderedValues, errorSink, setterCalls,
                 widgetCalls, batchSets, batchClears, apiCalls, nextRef, pureVars, sizeVars, delivered>>

\* what the cell registered for valueId holds, compared with value
HoldsStrict(valueId, value) ==
  /\ stateValueSubjects[valueId] # 0
  /\ ~StrictNotEqual(subjects[stateValueSubjects[valueId]].value, value)
HoldsStruct(valueId, value) ==
  /\ stateValueSubjects[valueId] # 0
  /\ StructEqual(subjects[stateValueSubjects[valueId]].value, value)

\* A script (an action handler or a render script) calls ctx.api.setValue.
ApiSetValue(valueId, value) ==
  /\ initialized
  /\ apiCalls < MaxApiCalls
  /\ apiCalls' = apiCalls + 1
  /\ LET S == setValue(Store, valueId, value)
     IN StoreBecomes(S) /\ threw' = S.threw
  /\ nextRef' = IF value = Obj(nextRef) THEN nextRef + 1 ELSE nextRef
  /\ op' = Op("setValue", valueId, HoldsStrict(valueId, value), HoldsStruct(valueId, value))
  /\ UNCHANGED <<initResult, initialized, metadata, sceneDescriptors, destroyed, loadingSubject,
                 valueActions, actionsDestroyed, req, forkJoin, dispatches, errorSink,
                 setterCalls, widgetCalls, batchSets, batchClears, pureVars, sizeVars, delivered>>

\* A value getter's request is one-shot and stays in flight until it settles:
\* neither destroy() nor the settlement of a sibling cancels it.
InFlight(id) == req[id] = "pending"

\* A value setter's dispatch is one-shot and stays in flight until it settles.
DispatchInFlight(d) == d \in DOMAIN dispatches /\ dispatches[d].st = "inflight"

\* Settlement of the forkJoin of initialize after request `id` settled with
\* `outcome`: its error handler runs at the first failure, its next handler
\* once every request has delivered; either calls loadingSubject.next(false).
ForkJoinFires(req1, outcome) ==
  /\ forkJoin = "active"
  /\ \/ outcome = "failed"
     \/ \A g \in ValueGetterIds(metadata) : req1[g] = "ok"

\* The request of value behaviour `id` succeeds with the raw value: the `next`
\* callback given to ValueGetter.fromSettings runs, then forkJoin sees it.
AcquireOk(id, raw) ==
  /\ InFlight(id)
  /\ LET b    == find(metadata.behavior, id)
         norm == normalizeValue(raw, b.valueType, nextRef)
         S    == onValue(Store, metadata, id, raw, nextRef)
         req1 == [req EXCEPT ![id] = "ok"]
         ln   == LoadingNext(loadingSubject, FALSE)
     IN /\ StoreBecomes(S)
        /\ req' = req1
        /\ nextRef' = IF norm = Obj(nextRef) THEN nextRef + 1 ELSE nextRef
        /\ op' = [Op("onValue", b.valueId, HoldsStrict(b.valueId, norm),
                     HoldsStruct(b.valueId, norm)) EXCEPT !.bid = id]
        /\ delivered' = [delivered EXCEPT ![id] = raw]
        /\ IF ForkJoinFires(req1, "ok")
             THEN /\ forkJoin' = "done"
                  /\ loadingSubject' = ln.ls
                  /\ batchClears' = batchClears + 1
                  /\ threw' = (S.threw \/ ln.threw)
             ELSE /\ threw' = S.threw
                  /\ UNCHANGED <<forkJoin, loadingSubject, batchClears>>
  /\ UNCHANGED <<initResult, initialized, metadata, sceneDescriptors, destroyed, valueActions,
                 actionsDestroyed, dispatches, errorSink, setterCalls, widgetCalls,
                 batchSets, apiCalls, pureVars, sizeVars>>

\* The request of value behaviour `id` fails: the `error` callback passes the
\* formatted message to the error sink, then forkJoin sees the failure.
AcquireFail(id) ==
  /\ InFlight(id)
  /\ LET req1 == [req EXCEPT ![id] = "failed"]
         ln   == LoadingNext(loadingSubject, FALSE)
     IN /\ req' = req1
        /\ errorSink' = errorSink + 1
        /\ op' = Op("onAcquireError", id, FALSE, FALSE)
        /\ IF ForkJoinFires(req1, "failed")
             THEN /\ forkJoin' = "done"
                  /\ loadingSubject' = ln.ls
                  /\ batchClears' = batchClears + 1
                  /\ threw' = ln.threw
             ELSE /\ threw' = FALSE
                  /\ UNCHANGED <<forkJoin, loadingSubject, batchClears>>
  /\ UNCHANGED <<initResult, initialized, metadata, sceneDescriptors, destroyed, storeVars,
                 valueActions, actionsDestroyed, dispatches, setterCalls, widgetCalls,
                 batchSets, apiCalls, nextRef, pureVars, sizeVars, delivered>>

HasNext(obs)  == obs \in {"next", "both"}
HasError(obs) == obs \in {"error", "both"}

\* A script calls ctx.api.callAction(event, behaviorId, value, observer).
ApiCallAction(behaviorId, obs) ==
  /\ initialized
  /\ apiCalls < MaxApiCalls
  /\ apiCalls' = apiCalls + 1
  /\ op' = Op("callAction", behaviorId, FALSE, FALSE)
  /\ LET behavior == find(metadata.behavior, behaviorId)
         ln       == LoadingNext(loadingSubject, TRUE)
     IN CASE behavior.type = "action" ->
               /\ loadingSubject' = ln.ls
               /\ threw' = ln.threw
               /\ IF ln.threw
                    THEN UNCHANGED <<dispatches, setterCalls>>
                    ELSE /\ Len(dispatches) < MaxDispatch
                         /\ setterCalls' = setterCalls + 1
                         /\ dispatches' = Append(dispatches,
                              [id |-> behaviorId, obs |-> obs, st |-> "inflight",
                               clears |-> 0, nexts |-> 0, errors |-> 0, sinks |-> 0])
               /\ UNCHANGED widgetCalls
          [] behavior.type = "widgetAction" ->
               /\ widgetCalls' = widgetCalls + 1
               /\ threw' = FALSE
               /\ UNCHANGED <<loadingSubject, dispatches, setterCalls>>
          [] OTHER ->
               /\ threw' = FALSE
               /\ UNCHANGED <<loadingSubject, dispatches, setterCalls, widgetCalls>>
  /\ UNCHANGED <<initResult, initialized, metadata, sceneDescriptors, destroyed, storeVars,
                 valueActions, actionsDestroyed, req, forkJoin, errorSink, batchSets,
                 batchClears, nextRef, pureVars, sizeVars, delivered>>

\* The dispatch d succeeds: the `next` handler of callAction.
DispatchOk(d) ==
  /\ DispatchInFlight(d)
  /\ LET ln == LoadingNext(loadingSubject, FALSE)
     IN /\ loadingSubject' = ln.ls
        /\ threw' = ln.threw
        /\ dispatches' = [dispatches EXCEPT
             ![d].st = "ok",
             ![d].nexts = @ + (IF HasNext(dispatches[d].obs) THEN 1 ELSE 0),
             ![d].clears = @ + 1]
  /\ op' = Op("dispatchOk", dispatches[d].id, FALSE, FALSE)
  /\ UNCHANGED <<initResult, initialized, metadata, sceneDescriptors, destroyed, storeVars,
                 valueActions, actionsDestroyed, req, forkJoin, errorSink, setterCalls,
                 widgetCalls, batchSets, batchClears, apiCalls, nextRef, pureVars, sizeVars, delivered>>

\* The dispatch d fails: the `error` handler of callAction.  A throw of
\* loadingSubject.next(false) skips the rest of the handler.
DispatchFail(d) ==
  /\ DispatchInFlight(d)
  /\ LET ln == LoadingNext(loadingSubject, FALSE)
         go == IF ln.threw THEN 0 ELSE 1
     IN /\ loadingSubject' = ln.ls
        /\ threw' = ln.threw
        /\ dispatches' = [dispatches EXCEPT
             ![d].st = "failed",
             ![d].clears = @ + 1,
             ![d].errors = @ + (IF HasError(dispatches[d].obs) THEN go ELSE 0),
             ![d].sinks = @ + go]
        /\ errorSink' = errorSink + go
  /\ op' = Op("dispatchFail", dispatches[d].id, FALSE, FALSE)
  /\ UNCHANGED <<initResult, initialized, metadata, sceneDescriptors, destroyed, storeVars,
                 valueActions, actionsDestroyed, req, forkJoin, setterCalls,
                 widgetCalls, batchSets, batchClears, apiCalls, nextRef, pureVars, sizeVars, delivered>>

\* The ids a script passes: those the metadata declares, and one it does not.
DeclaredIds   == { metadata.behavior[i].id : i \in DOMAIN metadata.behavior }
BoundValueIds == { metadata.behavior[i].valueId : i \in DOMAIN metadata.behavior } \cap ValueIds

Next ==
  \/ FetchFail
  \/ (initResult = "pending" /\ \E c \in SvgContents : FetchOk(c))
  \/ Destroy
  \/ \E id \in BehaviorIds, raw \in RawValues : AcquireOk(id, raw)
  \/ \E id \in BehaviorIds : AcquireFail(id)
  \/ \E v \in BoundValueIds \cup {"v9"}, x \in ScriptValues : ApiSetValue(v, x)
  \/ \E b \in DeclaredIds \cup {"zz"}, o \in Observers : ApiCallAction(b, o)
  \/ \E d \in 1..MaxDispatch : DispatchOk(d)
  \/ \E d \in 1..MaxDispatch : DispatchFail(d)

Spec == Init /\ [][Next]_vars

\* ------------------------------------------------------- sizing and attaching
\* setSize and addTo read and write only the sizing fields, which no handler
\* of Next other than the completion of init touches; SpecSizing interleaves
\* them with the fetch.
SizeValues == {Num(0), Num(80), Num(100)}

SetSize(w, h) ==
  /\ targetWidth' = w
  /\ targetHeight' = h
  /\ scale' = IF box.known THEN Scaled(w, h, box) ELSE scale
  /\ op' = Op("setSize", "", FALSE, FALSE)
  /\ threw' = FALSE
  /\ UNCHANGED <<initResult, initialized, metadata, sceneDescriptors, destroyed, loadingSubject,
                 storeVars, valueActions, actionsDestroyed, req, forkJoin, dispatches,
                 errorSink, setterCalls, widgetCalls, batchSets, batchClears, apiCalls,
                 nextRef, pureVars, delivered, rootElement, box, attachedTo>>

AddTo(element) ==
  /\ rootElement' = element
  /\ attachedTo' = IF box.known THEN element ELSE attachedTo
  /\ op' = Op("addTo", "", FALSE, FALSE)
  /\ threw' = FALSE
  /\ UNCHANGED <<initResult, initialized, metadata, sceneDescriptors, destroyed, loadingSubject,
                 storeVars, valueActions, actionsDestroyed, req, forkJoin, dispatches,
                 errorSink, setterCalls, widgetCalls, batchSets, batchClears, apiCalls,
                 nextRef, pureVars, delivered, targetWidth, targetHeight, box, scale>>

NextSizing ==
  \/ FetchFail
  \/ (initResult = "pending" /\ \E c \in SvgContents : FetchOk(c))
  \/ \E w \in SizeValues, h \in SizeValues : SetSize(w, h)
  \/ \E e \in Containers : AddTo(e)

SpecSizing == Init /\ [][NextSizing]_vars

\* ------------------------------------------------------ the parser alone
\* parseIotSvgMetadataFromContent applied to every document text of the bounds.
InitParse ==
  /\ InitObject
  /\ pfIn \in SvgContents
  /\ pfOut = NoMetadata

Parse ==
  /\ pfOut = NoMetadata
  /\ pfOut' = parseIotSvgMetadataFromContent(pfIn)
  /\ UNCHANGED <<objectVars, pfIn>>

NextParse == Parse

SpecParse == InitParse /\ [][NextParse]_vars

\* ------------------------------------------------------ the embedder alone
\* updateIotSvgMetadataInContent applied up to MaxEmbeds times, with the same
\* metadata, to a document text; the descriptors the text starts with hold
\* text that is not JSON or the empty metadata.
EmbedNodes == {Shape, Descriptor(InvalidJson), Descriptor(JsonText(emptyMetadata))}
EmbedContents ==
  { [wellFormed |-> TRUE, kids |-> k] :
      k \in UNION { [1..n -> EmbedNodes] : n \in 0..MaxKids } }
  \cup {NoContent}

InitEmbed ==
  /\ InitObject
  /\ pfIn \in [svgContent : EmbedContents, metadata : EmbedMetadata]
  /\ pfOut = [embeds |-> 0, threw |-> FALSE, content |-> pfIn.svgContent,
              once |-> pfIn.svgContent]

Embed ==
  /\ pfOut.embeds < MaxEmbeds
  /\ ~pfOut.threw
  /\ LET r == updateIotSvgMetadataInContent(pfOut.content, pfIn.metadata)
     IN pfOut' = [embeds |-> pfOut.embeds + 1, threw |-> r.threw, content |-> r.content,
                  once |-> IF pfOut.embeds = 0 THEN r.content ELSE pfOut.once]
  /\ UNCHANGED <<objectVars, pfIn>>

NextEmbed == Embed

SpecEmbed == InitEmbed /\ [][NextEmbed]_vars

\* ---------------------------------------------- the acquisition callback alone
\* onValue applied to the cell of one value behaviour of every declared type,
\* right after initialize created the cell from the behaviour's default.
ValueTypes     == {"BOOLEAN", "STRING", "INTEGER", "DOUBLE", "JSON"}
DefaultValues  == {Bool(FALSE), Bool(TRUE), Num(0), Num(1), Str(0), Obj(0)}
AcquiredValues == {Undefined, Null, Bool(FALSE), Bool(TRUE), Num(0), Num(1), Str(0), Str(1),
                   NaNValue, Obj(0)}

InitNormalize ==
  /\ InitObject
  /\ pfIn \in [valueType : ValueTypes, defaultValue : DefaultValues, value : AcquiredValues]
  /\ pfOut = [done |-> FALSE, cell |-> Undefined, snapshot |-> Undefined]

Normalize ==
  /\ ~pfOut.done
  /\ LET behavior == <<ValueBehavior("g1", pfIn.valueType, pfIn.defaultValue, "v1")>>
         S0 == InitBehaviors(Store, behavior, 1)
         S1 == onValue(S0, JsonValue("metadata", behavior), "g1", pfIn.value, nextRef)
     IN pfOut' = [done |-> TRUE, cell |-> S1.subjects[S1.reg["v1"]].value,
                  snapshot |-> S1.values["v1"]]
  /\ UNCHANGED <<objectVars, pfIn>>

NextNormalize == Normalize

SpecNormalize == InitNormalize /\ [][NextNormalize]_vars

\* ------------------------------------------------------------ resize alone
TargetSizes == {0, 50, 80, 100, 200}
BoxSizes    == {100, 200}

InitResize ==
  /\ InitObject
  /\ pfIn \in [targetWidth : TargetSizes, targetHeight : TargetSizes,
               box : [width : BoxSizes, height : BoxSizes]]
  /\ pfOut = [done |-> FALSE, scale |-> [num |-> 0, den |-> 1]]

Resize ==
  /\ ~pfOut.done
  /\ pfOut' = [done |-> TRUE, scale |-> resize(pfIn.targetWidth, pfIn.targetHeight, pfIn.box)]
  /\ UNCHANGED <<objectVars, pfIn>>

NextResize == Resize

SpecResize == InitResize /\ [][NextResize]_vars

\* ------------------------------------------------------ one render pass alone
\* "t3" is a tag name that marks elements and that the metadata may not declare.
TagNames == {"t1", "t2", "t3"}
TagLists ==
  { t \in UNION { [1..n -> TagNames \ {"t3"}] : n \in 0..MaxTags } :
      \A i, j \in DOMAIN t : i # j => t[i] # t[j] }
SceneElements == UNION { [1..n -> TagNames \cup {""}] : n \in 0..MaxElements }

InitRender ==
  /\ InitObject
  /\ pfIn \in [tags : TagLists, elements : SceneElements]
  /\ pfOut = [done |-> FALSE, calls |-> <<>>]

Render ==
  /\ ~pfOut.done
  /\ pfOut' = [done |-> TRUE, calls |-> renderStateCalls(pfIn.tags, pfIn.elements)]
  /\ UNCHANGED <<objectVars, pfIn>>

NextRender == Render

SpecRender == InitRender /\ [][NextRender]_vars

\* ================================================================= claims
Settled(id)   == req[id] \in {"ok", "failed"}
BatchIssued   == forkJoin # "none"
ValueOps      == {"setValue", "onValue"}
LateOps       == {"setValue", "onValue", "onAcquireError", "dispatchOk", "dispatchFail"}

\* C1: the batch of acquisition requests of initialize is issued with the busy
\* flag already set true, and the flag is set false by the batch exactly once,
\* and only after every request of the batch has settled (succeeded or failed).
C1_BatchBusyFlag ==
  /\ BatchIssued => batchSets = 1
  /\ batchClears <= 1
  /\ batchClears = 1 => \A g \in ValueGetterIds(metadata) : Settled(g)
  /\ (BatchIssued /\ \A g \in ValueGetterIds(metadata) : Settled(g)) => batchClears = 1

\* C2: callAction on an action-kind behaviour sets the busy flag true and
\* invokes the setter; the completion of the dispatch sets the flag false
\* exactly once; a success invokes observer.next if supplied; a failure invokes
\* observer.error if supplied and passes one message to the error sink.
C2_CallActionDispatch ==
  /\ (op.name = "callAction" /\ find(metadata.behavior, op.id).type = "action") =>
        /\ ~threw
        /\ loadingSubject.value = TRUE
        /\ Len(dispatches) > 0
        /\ dispatches[Len(dispatches)].id = op.id
        /\ dispatches[Len(dispatches)].st = "inflight"
  /\ \A d \in DOMAIN dispatches :
        LET x == dispatches[d]
        IN /\ x.st = "inflight" => x.clears = 0 /\ x.nexts = 0 /\ x.errors = 0 /\ x.sinks = 0
           /\ x.st = "ok" =>
                /\ x.clears = 1
                /\ x.nexts = (IF HasNext(x.obs) THEN 1 ELSE 0)
                /\ x.errors = 0 /\ x.sinks = 0
           /\ x.st = "failed" =>
                /\ x.clears = 1
                /\ x.errors = (IF HasError(x.obs) THEN 1 ELSE 0)
                /\ x.sinks = 1
                /\ x.nexts = 0

\* C3: after destroy(), no setValue call, acquisition completion or action
\* completion runs a render pass.
C3_NoRenderAfterDestroy ==
  [][(destroyed /\ op'.name \in LateOps) => renderCount' = renderCount]_vars

\* C4: a setValue call or an acquisition completion callback that arrives after
\* destroy() does not throw and leaves the released cells and the context
\* snapshot unchanged.
C4_LateCallbackIsSafe ==
  [][(destroyed /\ op'.name \in ValueOps) =>
        /\ ~threw'
        /\ contextValues' = contextValues
        /\ \A i \in DOMAIN subjects : subjects[i].closed => subjects'[i] = subjects[i]]_vars

\* C5 (as claimed): setValue(id, v) when the cell of id already holds a value
\* equal to v (for objects: structurally equal, as the {} of the default
\* normalization is) runs no render pass and notifies no subscriber.
C5_SameValueNoRender ==
  [][(op'.name \in ValueOps /\ op'.structSame) =>
        (renderCount' = renderCount /\ notifyCount' = notifyCount)]_vars

\* C5 (amended): setValue(id, v) when the cell of id holds a value strictly
\* equal (===) to v runs no render pass and notifies no subscriber.
C5_StrictlySameValueNoRender ==
  [][(op'.name \in ValueOps /\ op'.strictSame) =>
        (renderCount' = renderCount /\ notifyCount' = notifyCount)]_vars

\* an acquisition delivered undefined, normalized to the value the live cell holds
C5_Witness == op.name = "onValue" /\ op.strictSame /\ ~op.late /\ ~threw

\* C6: every accepted setValue runs exactly one render pass, neither coalesced
\* nor duplicated, on top of the single first render pass of initialize.
C6_RenderPerAcceptedUpdate ==
  renderCount = (IF initialized THEN 1 ELSE 0) + acceptedCount

\* two accepted updates on two distinct value ids, three render passes in all
C6_Witness == acceptedIds = {"v1", "v2"} /\ acceptedCount = 2 /\ renderCount = 3

\* C7: destroy() completes and releases every reactive cell created by
\* initialize (one per value behaviour), disposes every constructed getter and
\* setter, and completes the busy-flag stream.
C7_DestroyReleasesAll ==
  op.name = "destroy" =>
    /\ \A i \in DOMAIN subjects : subjects[i].closed
    /\ actionsDestroyed = { valueActions[i] : i \in DOMAIN valueActions }
    /\ loadingSubject.closed

\* C8: callAction with an id no behaviour of the metadata has does not throw,
\* leaves the busy flag unchanged and invokes no setter, no widget-action
\* dispatcher and no observer callback.
C8_UnknownIdNoOp ==
  [][(op'.name = "callAction" /\ op'.id \notin DeclaredIds) =>
        /\ ~threw'
        /\ loadingSubject' = loadingSubject
        /\ setterCalls' = setterCalls
        /\ widgetCalls' = widgetCalls
        /\ dispatches' = dispatches
        /\ errorSink' = errorSink]_vars

\* an unknown id passed while the metadata declares an action behaviour
C8_Witness == op.name = "callAction" /\ op.id = "zz" /\ "a1" \in DeclaredIds

\* C9: init() fails outward only when the fetch fails; for every fetched text
\* it completes, and the runtime holds a metadata object.
C9_InitFailsOnlyOnFetch ==
  /\ initResult \in {"pending", "ok", "transportError"}
  /\ initResult = "ok" => IsMetadata(metadata)

\* the cases the claim lists: not well-formed, no descriptor, text not JSON
NeutralCase(svgContent) ==
  LET elements == getElementsByTagName(DOMParse(svgContent))
  IN \/ ~svgContent.wellFormed
     \/ Len(elements) = 0
     \/ ~elements[1].text.valid

\* C10: parse returns a Metadata value for every document, and the neutral
\* empty Metadata when the document is unusable, has no descriptor element or
\* its text is not valid JSON.
C10_ParseTotal ==
  pfOut # NoMetadata =>
    /\ IsMetadata(pfOut)
    /\ NeutralCase(pfIn) => pfOut = emptyMetadata

\* C11: for every metadata M and every document D, parsing the document that
\* embedding M into D produces gives a metadata structurally equal to M.
C11_RoundTrip ==
  pfOut.embeds >= 1 =>
    /\ ~pfOut.threw
    /\ MetadataStructEqual(parseIotSvgMetadataFromContent(pfOut.content), pfIn.metadata)

\* the descriptor elements of a document text
DescriptorCount(svgContent) == Len(getElementsByTagName(DOMParse(svgContent)))

\* C12: after one or more embeds the document holds exactly one descriptor
\* element, and embedding the same M twice gives the document of embedding once.
C12_EmbedIdempotent ==
  (pfOut.embeds >= 1 /\ ~pfOut.threw) =>
    /\ DescriptorCount(pfOut.content) = 1
    /\ pfOut.content = pfOut.once

\* C13: after embed(D, M) the descriptor element is the first child of the
\* document root, also when D already held a descriptor at another position.
C13_DescriptorFirstChild ==
  (pfOut.embeds >= 1 /\ ~pfOut.threw) =>
    LET doc == DOMParse(pfOut.content)
    IN Len(doc) >= 1 /\ doc[1].kind = "tb:metadata"

\* the default the claim gives for a declared type
DefaultOf(type) ==
  CASE type = "BOOLEAN" -> Bool(FALSE)
    [] type = "STRING" -> Str(0)
    [] type \in {"INTEGER", "DOUBLE"} -> Num(0)
    [] type = "JSON" -> Obj(0)

\* C14: an acquired value that is undefined or null leaves the default of the
\* declared type in the behaviour's cell (false, '', 0, 0, {}); a defined,
\* non-null acquired value is written to the cell unchanged.
C14_DefaultNormalization ==
  pfOut.done =>
    /\ isUndefinedOrNull(pfIn.value) => StructEqual(pfOut.cell, DefaultOf(pfIn.valueType))
    /\ ~isUndefinedOrNull(pfIn.value) => pfOut.cell = pfIn.value

\* null acquired for a STRING behaviour whose cell held another value
C14_Witness ==
  /\ pfOut.done
  /\ pfIn.value = Null /\ pfIn.valueType = "STRING" /\ pfIn.defaultValue = Num(1)
  /\ pfOut.cell = Str(0)

\* equality and order of two fractions with positive denominators
FracEq(a, b)   == a.num * b.den = b.num * a.den
FracLess(a, b) == a.num * b.den < b.num * a.den
MinRatio(w, h, b) ==
  LET rw == [num |-> w, den |-> b.width]
      rh == [num |-> h, den |-> b.height]
  IN IF FracLess(rw, rh) THEN rw ELSE rh

\* C15 (as claimed): the scale of resize is min(targetWidth / naturalWidth,
\* targetHeight / naturalHeight), and it is the width ratio when
\* targetWidth < targetHeight and the height ratio otherwise.
C15_ScaleIsMin ==
  pfOut.done =>
    /\ FracEq(pfOut.scale, MinRatio(pfIn.targetWidth, pfIn.targetHeight, pfIn.box))
    /\ pfIn.targetWidth < pfIn.targetHeight =>
          FracEq(pfOut.scale, [num |-> pfIn.targetWidth, den |-> pfIn.box.width])
    /\ ~(pfIn.targetWidth < pfIn.targetHeight) =>
          FracEq(pfOut.scale, [num |-> pfIn.targetHeight, den |-> pfIn.box.height])

\* C15 (amended): the scale of resize is the width ratio when
\* targetWidth < targetHeight and the height ratio otherwise; natural box
\* 200x100 with target 100x80 gives 0.8.
C15_ScaleByBranch ==
  pfOut.done =>
    /\ pfIn.targetWidth < pfIn.targetHeight =>
          FracEq(pfOut.scale, [num |-> pfIn.targetWidth, den |-> pfIn.box.width])
    /\ ~(pfIn.targetWidth < pfIn.targetHeight) =>
          FracEq(pfOut.scale, [num |-> pfIn.targetHeight, den |-> pfIn.box.height])
    /\ (pfIn = [targetWidth |-> 100, targetHeight |-> 80,
                box |-> [width |-> 200, height |-> 100]]) =>
          FracEq(pfOut.scale, [num |-> 8, den |-> 10])

\* natural box 200x100, target 100x80: scale 0.8, while the smaller ratio is 0.5
C15_Witness ==
  /\ pfOut.done
  /\ pfIn = [targetWidth |-> 100, targetHeight |-> 80, box |-> [width |-> 200, height |-> 100]]
  /\ FracEq(pfOut.scale, [num |-> 8, den |-> 10])
  /\ FracEq(MinRatio(100, 80, pfIn.box), [num |-> 5, den |-> 10])

\* position of a tag in the declaration list (0: not declared)
TagPos(tags, t) == IF \E k \in DOMAIN tags : tags[k] = t
                     THEN CHOOSE k \in DOMAIN tags : tags[k] = t ELSE 0

\* C16: a render pass invokes the root render script exactly once and first,
\* then each declared tag's script exactly once per element matching the tag,
\* tags in declaration order and the elements of one tag in document order.
C16_RenderPassOrder ==
  pfOut.done =>
    LET calls == pfOut.calls
    IN /\ Len(calls) >= 1 /\ calls[1].script = "root"
       /\ \A i \in DOMAIN calls : i > 1 =>
             /\ TagPos(pfIn.tags, calls[i].script) > 0
             /\ calls[i].at \in DOMAIN pfIn.elements
             /\ pfIn.elements[calls[i].at] = calls[i].script
       /\ \A k \in DOMAIN pfIn.tags, e \in DOMAIN pfIn.elements :
             pfIn.elements[e] = pfIn.tags[k] =>
               Cardinality({ i \in DOMAIN calls :
                               calls[i] = [script |-> pfIn.tags[k], at |-> e] }) = 1
       /\ \A i, j \in DOMAIN calls : (1 < i /\ i < j) =>
             \/ TagPos(pfIn.tags, calls[i].script) < TagPos(pfIn.tags, calls[j].script)
             \/ /\ calls[i].script = calls[j].script
                /\ calls[i].at < calls[j].at

\* tags declared t2 then t1, elements marked t1, t2, t1 in document order
C16_Witness ==
  /\ pfIn = [tags |-> <<"t2", "t1">>, elements |-> <<"t1", "t2", "t1">>]
  /\ pfOut.calls = << [script |-> "root", at |-> 0], [script |-> "t2", at |-> 2],
                      [script |-> "t1", at |-> 1], [script |-> "t1", at |-> 3] >>

\* C19: the scene graph built by init holds no descriptor element, however
\* many descriptor elements the fetched document holds.
C19_SceneHasNoDescriptor == sceneDescriptors = 0

\* C20: a scale is on the scene only when the target dimensions and the natural
\* box are known; once both are known the scale is the one computed from the
\* latest setSize and the scene is a child of the latest container of addTo.
C20_ScaleAndAttach ==
  LET sized == targetWidth # Undefined /\ targetHeight # Undefined
  IN /\ scale.set => (sized /\ box.known)
     /\ (sized /\ box.known) => scale = Scaled(targetWidth, targetHeight, box)
     /\ (rootElement # Undefined /\ box.known) => attachedTo = rootElement
     /\ attachedTo # Undefined => box.known

\* the value behaviours of the metadata
ValueBehaviors ==
  { metadata.behavior[i] : i \in { j \in DOMAIN metadata.behavior :
                                     metadata.behavior[j].type = "value" } }

\* C17: a request of the batch that succeeds after a sibling request failed
\* still delivers its value to its cell, and every failure is passed to the
\* error sink as one message.
C17_FailureDoesNotHaltSiblings ==
  [][/\ (op'.name = "onValue" /\ \E g \in BehaviorIds : req[g] = "failed") =>
          /\ ~threw'
          /\ LET b == find(metadata.behavior, op'.bid)
                 v == normalizeValue(delivered'[op'.bid], b.valueType, 0)
             IN /\ stateValueSubjects'[b.valueId] # 0
                /\ StructEqual(subjects'[stateValueSubjects'[b.valueId]].value, v)
     /\ op'.name = "onAcquireError" => errorSink' = errorSink + 1]_vars

\* C18: every value behaviour has a cell of its own, so once every request of
\* the batch has delivered, the context snapshot holds for every behaviour the
\* normalized value its request delivered, whatever the order of delivery.
C18_DeliveryOrderIndependent ==
  (/\ ~destroyed
   /\ apiCalls = 0
   /\ BatchIssued
   /\ \A g \in ValueGetterIds(metadata) : req[g] = "ok") =>
     \A b \in ValueBehaviors :
       StructEqual(contextValues[b.valueId],
                   normalizeValue(delivered[b.id], b.valueType, 0))

\* a tracked operation is in flight: a request of the acquisition batch or a
\* dispatch started by callAction
TrackedInFlight ==
  \/ \E g \in BehaviorIds : InFlight(g)
  \/ \E d \in DOMAIN dispatches : DispatchInFlight(d)

\* C21: before destroy(), the busy flag is true while at least one tracked
\* operation (the acquisition batch or an action dispatch) is in flight, and
\* false once none is in flight.
C21_BusyWhileInFlight ==
  ~destroyed => (loadingSubject.value = TrackedInFlight)

\* C22: after initialize and after every completed setValue or acquisition
\* completion, context.values[id] equals the value of the cell registered for
\* id, for every bound value id, and the last render pass read a snapshot that
\* held the update that triggered it.
C22_SnapshotMatchesCells ==
  initialized =>
    /\ \A v \in BoundValueIds :
          /\ stateValueSubjects[v] # 0
          /\ contextValues[v] = subjects[stateValueSubjects[v]].value
    /\ renderedValues = contextValues

\* an accepted update of a live cell ran a render pass after the first one
C22_Witness ==
  /\ op.name \in ValueOps /\ ~op.strictSame /\ ~threw /\ ~destroyed
  /\ renderCount >= 2
  /\ op.id \in BoundValueIds
  /\ contextValues[op.id] = Bool(TRUE)

====
